---- MODULE Spec2Model ----
(***************************************************************************)
(* Model of irmasim.workload_manager.Environment: the action table built   *)
(* by __init__, the observation vector built by _base_observation, the     *)
(* three reward functions and the core/job selector registries.            *)
(*                                                                         *)
(* Python floats are modelled as exact rationals <<num, den>> kept in      *)
(* lowest terms with den > 0; None is the string "None".                   *)
(***************************************************************************)
EXTENDS Integers, Sequences, FiniteSets, TLC

VARIABLES
    env_options,            \* Options().get()["workload_manager"]["env"]
    status,                 \* "new" before __init__, then "ready" or "failed"
    actions,                \* self.actions
    with_void,              \* self.with_void
    action_space,           \* self.action_space.n
    observation_space,      \* self.observation_space.shape[0]
    reward,                 \* objective key self.reward is bound to
    queue_sensitivity,      \* self.queue_sensitivity
    last_job_queue_length,  \* self.last_job_queue_length
    pending_jobs,           \* self.workload_manager.pending_jobs
    job_limits,             \* self.simulator.job_limits
    simulation_time,        \* self.simulator.simulation_time
    last_time,              \* self.workload_manager.last_time
    platform,               \* self.simulator.platform (processors and cores)
    call,                   \* the last operation invoked, with its inputs
    ret                     \* what the last operation returned

envVars == <<status, actions, with_void, action_space, observation_space,
             reward, queue_sensitivity, last_job_queue_length>>
extVars == <<pending_jobs, job_limits, simulation_time, last_time, platform>>
vars == <<env_options, envVars, extVars, call, ret>>

None == "None"
\* None as the value of last_job_queue_length (line 109), which otherwise
\* holds a non-negative queue length.
NoneLength == -1
Void == "Void"
KeyError == "KeyError"
OutOfRange == "OutOfRange"

----------------------------------------------------------------------------
(* Exact rational arithmetic standing for Python float arithmetic.         *)

Abs(n) == IF n < 0 THEN -n ELSE n

RECURSIVE GCD(_, _)
GCD(a, b) == IF b = 0 THEN a ELSE GCD(b, a % b)

\* The rational n/d (d # 0) in lowest terms with a positive denominator.
Rat(n, d) ==
    LET g == GCD(Abs(n), Abs(d))
        s == IF d < 0 THEN -1 ELSE 1
    IN  <<(s * n) \div g, (s * d) \div g>>

RInt(n) == <<n, 1>>
RAdd(a, b) == Rat(a[1] * b[2] + b[1] * a[2], a[2] * b[2])
RMul(a, b) == Rat(a[1] * b[1], a[2] * b[2])
RDiv(a, b) == Rat(a[1] * b[2], a[2] * b[1])
RLe(a, b) == a[1] * b[2] <= b[1] * a[2]
RMin(a, b) == IF RLe(a, b) THEN a ELSE b
RMax(a, b) == IF RLe(a, b) THEN b ELSE a

----------------------------------------------------------------------------
(* Selector registries (ordered mappings key -> scoring function).         *)

\* self.job_selections: the job attribute each key scores by, None = random.
job_selections ==
    << <<"random", None>>,
       <<"first", "submit_time">>,
       <<"shortest", "req_time">>,
       <<"smallest", "resources">>,
       <<"low_mem", "memory">>,
       <<"low_mem_ops", "memory_vol">> >>

\* self.core_selections: the scoring lambda each key names, None = random.
core_selections ==
    << <<"random", None>>,
       <<"high_gflops", "neg_gflops_per_core">>,
       <<"high_cores", "neg_busy_cores">>,
       <<"high_mem", "neg_current_mem">>,
       <<"high_mem_bw", "current_mem_bw">>,
       <<"low_power", "power">> >>

\* key in registry
HasKey(registry, key) == \E i \in 1..Len(registry) : registry[i][1] = key

\* registry[key]
Lookup(registry, key) ==
    registry[CHOOSE i \in 1..Len(registry) : registry[i][1] = key][2]

\* registry.values(), in declaration order
Values(registry) == [i \in 1..Len(registry) |-> registry[i][2]]

----------------------------------------------------------------------------
(* Action table: __init__, lines 130-149.                                  *)

\* The (job_sel, core_sel) key pairs of one selection entry `sel` (a mapping
\* given as its items <<job_sel, core_sels>> in order): the two inner loops.
RECURSIVE CorePairs(_, _)
CorePairs(job_sel, core_sels) ==
    IF core_sels = <<>> THEN <<>>
    ELSE <<<<job_sel, Head(core_sels)>>>> \o CorePairs(job_sel, Tail(core_sels))

RECURSIVE ItemPairs(_)
ItemPairs(sel) ==
    IF sel = <<>> THEN <<>>
    ELSE CorePairs(Head(sel)[1], Head(sel)[2]) \o ItemPairs(Tail(sel))

\* The key pairs the three nested loops visit, in visiting order.
RECURSIVE SelectionPairs(_)
SelectionPairs(selection) ==
    IF selection = <<>> THEN <<>>
    ELSE ItemPairs(Head(selection)) \o SelectionPairs(Tail(selection))

\* The explicit branch: every visited pair is looked up in both registries;
\* a key missing from its registry raises KeyError.
SelectedActions(selection) ==
    LET pairs == SelectionPairs(selection)
    IN  IF \E k \in 1..Len(pairs) :
               \/ ~HasKey(job_selections, pairs[k][1])
               \/ ~HasKey(core_selections, pairs[k][2])
        THEN [error |-> KeyError, actions |-> <<>>]
        ELSE [error |-> None,
              actions |-> [k \in 1..Len(pairs) |->
                             <<Lookup(job_selections, pairs[k][1]),
                               Lookup(core_selections, pairs[k][2])>>]]

\* Faulty variant of DefaultActions: the two loops swapped (core loop outside).
DefaultActionsCoreMajor ==
    LET js == Values(job_selections)
        cs == Values(core_selections)
    IN  [k \in 1..(Len(js) * Len(cs)) |->
            <<js[((k - 1) % Len(js)) + 1], cs[((k - 1) \div Len(js)) + 1]>>]

\* The default branch: job_selections.values() x core_selections.values(),
\* job loop outside, core loop inside.
RECURSIVE DefaultRow(_, _)
DefaultRow(job_sel, cs) ==
    IF cs = <<>> THEN <<>>
    ELSE <<<<job_sel, Head(cs)>>>> \o DefaultRow(job_sel, Tail(cs))

RECURSIVE DefaultRows(_, _)
DefaultRows(js, cs) ==
    IF js = <<>> THEN <<>>
    ELSE DefaultRow(Head(js), cs) \o DefaultRows(Tail(js), cs)

DefaultActions ==
    DefaultRows(Values(job_selections), Values(core_selections))

\* self.actions after the if/else of lines 131-143, or the KeyError raised.
BuildActions(opts) ==
    IF opts.has_actions THEN SelectedActions(opts.selection)
    ELSE [error |-> None, actions |-> DefaultActions]

\* self.with_void, lines 138 and 143.
BuildWithVoid(opts) == IF opts.has_actions THEN opts.void ELSE TRUE

\* Faulty variant of NbActions: the void slot counted whatever with_void is.
NbActionsAlwaysVoid(acts, void) == Len(acts) + 1

\* nb_actions, lines 145-148.
NbActions(acts, void) == IF void THEN Len(acts) + 1 ELSE Len(acts)

----------------------------------------------------------------------------
(* Observation: _base_observation, lines 180-250.                          *)

\* Faulty variant of to_range: the max/min clamp of line 184 left out.
to_range_unclipped(variation_ratio, S) ==
    RDiv(RAdd(variation_ratio, S), RMul(RInt(2), S))

\* to_range, lines 181-184.
to_range(variation_ratio, S) ==
    RMax(RInt(0),
         RMin(RInt(1), RDiv(RAdd(variation_ratio, S), RMul(RInt(2), S))))

Sorted(reqe) == SortSeq(reqe, LAMBDA a, b : a < b)

\* np.min / np.max
NpMin(reqe) == CHOOSE x \in {reqe[i] : i \in 1..Len(reqe)} :
                   \A i \in 1..Len(reqe) : x <= reqe[i]
NpMax(reqe) == CHOOSE x \in {reqe[i] : i \in 1..Len(reqe)} :
                   \A i \in 1..Len(reqe) : x >= reqe[i]

\* np.percentile(reqe, q), linear interpolation between order statistics:
\* virtual index (n-1)*q/100 into the sorted array.
NpPercentile(reqe, q) ==
    LET a == Sorted(reqe)
        n == Len(a)
        lo == ((n - 1) * q) \div 100
        fr == ((n - 1) * q) % 100
        hi == IF lo + 1 < n THEN lo + 1 ELSE lo
    IN  Rat(a[lo + 1] * 100 + (a[hi + 1] - a[lo + 1]) * fr, 100)

\* np.median: the middle element, or the mean of the two middle elements.
NpMedian(reqe) ==
    LET a == Sorted(reqe)
        n == Len(a)
    IN  IF n % 2 = 1 THEN RInt(a[(n \div 2) + 1])
        ELSE Rat(a[n \div 2] + a[(n \div 2) + 1], 2)

\* One pass of the loop of lines 227-237: the five entries of one dimension.
Stats(reqe, maxe) ==
    IF Len(reqe) # 0
    THEN << RDiv(RInt(NpMin(reqe)), RInt(maxe)),
            RDiv(NpPercentile(reqe, 25), RInt(maxe)),
            RDiv(NpMedian(reqe), RInt(maxe)),
            RDiv(NpPercentile(reqe, 75), RInt(maxe)),
            RDiv(RInt(NpMax(reqe)), RInt(maxe)) >>
    ELSE << RInt(0), RInt(0), RInt(0), RInt(0), RInt(0) >>

PyMin(a, b) == IF b < a THEN b ELSE a

\* Faulty variant of DegenerateRatio: 0.0 in place of 1.0.
DegenerateRatioZero == RInt(0)

\* The literal of line 241.
DegenerateRatio == RInt(1)

\* Faulty variant of VariationRatio: the variation divided by max(cur, last).
VariationRatioByMax(cur, last, S) ==
    IF last = NoneLength \/ PyMin(cur, last) = 0
    THEN DegenerateRatio
    ELSE to_range(Rat(cur - last, IF cur < last THEN last ELSE cur), S)

\* variation_ratio, lines 239-247.
VariationRatio(cur, last, S) ==
    IF last = NoneLength \/ PyMin(cur, last) = 0
    THEN DegenerateRatio
    ELSE to_range(Rat(cur - last, PyMin(cur, last)), S)

Attr(jobs, field) == [i \in 1..Len(jobs) |-> jobs[i][field]]

\* _base_observation(otype): the returned vector and the value it leaves in
\* self.last_job_queue_length.  The otype != 'minimal' block (lines 187-212)
\* holds only a string literal and appends nothing.
BaseObservation(otype, last, S, jobs, limits) ==
    [ observation |->
          Stats(Attr(jobs, "req_time"), limits.max_time)
          \o Stats(Attr(jobs, "resources"), limits.max_core)
          \o Stats(Attr(jobs, "memory"), limits.max_mem)
          \o Stats(Attr(jobs, "memory_vol"), limits.max_mem_vol)
          \o << VariationRatio(Len(jobs), last, S) >>,
      last_job_queue_length |-> Len(jobs) ]

\* observation_type, lines 151-154.
ObservationType(opts) ==
    IF opts.observation # None THEN opts.observation ELSE "normal"

----------------------------------------------------------------------------
(* Rewards: lines 163-168 and 252-260.  get_joules is the platform's       *)
(* function from an elapsed time to the energy drawn over it.              *)

objective_to_reward == {"makespan", "energy_consumption", "edp"}

\* makespan_reward, lines 252-253.
makespan_reward(sim, last) == sim - last

\* Faulty variant of energy_consumption_reward: the factor -1 left out.
energy_consumption_reward_positive(sim, last, get_joules) ==
    get_joules[sim - last]

\* energy_consumption_reward, lines 255-257.
energy_consumption_reward(sim, last, get_joules) ==
    -1 * get_joules[sim - last]

\* edp_reward, lines 259-260.
edp_reward(sim, last, get_joules) ==
    energy_consumption_reward(sim, last, get_joules) * makespan_reward(sim, last)

\* objective_to_reward[objective](), lines 163-167.
RewardFunction(objective, sim, last, get_joules) ==
    CASE objective = "makespan" -> makespan_reward(sim, last)
      [] objective = "energy_consumption" ->
             energy_consumption_reward(sim, last, get_joules)
      [] objective = "edp" -> edp_reward(sim, last, get_joules)

----------------------------------------------------------------------------
(* Core scoring lambdas, lines 120-128.  A core is <<p, i>>: the i-th      *)
(* child of processor p.                                                   *)

\* 'high_cores', lines 123-124: minus the number of the parent's children
\* whose task is not None.
NegBusyCores(core, plat) ==
    - Cardinality({i \in 1..Len(plat.procs[core[1]].children) :
                      plat.procs[core[1]].children[i].task # None})

CoreScore(fn, core, plat) ==
    LET proc == plat.procs[core[1]]
        c == proc.children[core[2]]
    IN  CASE fn = "neg_gflops_per_core" -> - proc.gflops_per_core
          [] fn = "neg_busy_cores" -> NegBusyCores(core, plat)
          [] fn = "neg_current_mem" -> - plat.nodes[proc.node].current_mem
          [] fn = "current_mem_bw" -> proc.current_mem_bw
          [] fn = "power" -> c.static_power + c.dynamic_power

\* The candidates a selection by `fn` may return: any candidate when fn is
\* None (random), else the first candidate of minimum score.
SelectMin(fn, candidates, plat) ==
    IF fn = None THEN {candidates[k] : k \in 1..Len(candidates)}
    ELSE {candidates[k] : k \in
            {k \in 1..Len(candidates) :
                /\ \A m \in 1..Len(candidates) :
                       CoreScore(fn, candidates[k], plat)
                           <= CoreScore(fn, candidates[m], plat)
                /\ \A m \in 1..(k - 1) :
                       CoreScore(fn, candidates[m], plat)
                           # CoreScore(fn, candidates[k], plat)}}

\* decode_action(index) over the table and the action count __init__ built.
DecodeAction(index, acts, n) ==
    IF index < 0 \/ index >= n THEN [kind |-> "error", value |-> OutOfRange]
    ELSE IF index < Len(acts) THEN [kind |-> "action", value |-> acts[index + 1]]
    ELSE [kind |-> "void", value |-> Void]

----------------------------------------------------------------------------
(* Inputs.                                                                 *)

MaxSel == 2       \* longest actions.selection list
MaxQueue == 4     \* longest pending-job queue

\* Selector keys a configuration may name; the last of each is in no registry.
JobKeysCfg == {"first", "low_mem_ops", "bogus_job"}
CoreListsCfg == { <<>>, <<"random">>, <<"high_cores", "random">>,
                  <<"bogus_core">> }

\* One entry of actions.selection: a mapping, given as its items in order.
SelCfg ==
    { << <<j, cs>> >> : j \in JobKeysCfg, cs \in CoreListsCfg }
    \cup { << <<"shortest", <<"low_power", "high_mem_bw">>>>,
              <<"first", <<"high_gflops">>>> >> }

RECURSIVE SeqsUpTo(_, _)
SeqsUpTo(S, n) ==
    IF n = 0 THEN {<<>>}
    ELSE LET shorter == SeqsUpTo(S, n - 1)
         IN  shorter \cup {Append(q, x) : q \in shorter, x \in S}

ObjectiveCfg == objective_to_reward \cup {"slowdown"}

\* queue_sensitivity values: 1/2, 1 and 2.
SensitivityCfg == { <<1, 2>>, <<1, 1>>, <<2, 1>> }

Options(has_actions, selection, void, observation, objective, S) ==
    [ has_actions |-> has_actions, selection |-> selection, void |-> void,
      observation |-> observation, objective |-> objective,
      queue_sensitivity |-> S ]

\* Configurations of the action table, valid and invalid.
ActionOptions ==
    { Options(TRUE, sel, v, None, o, <<1, 1>>) :
          sel \in SeqsUpTo(SelCfg, MaxSel), v \in BOOLEAN, o \in ObjectiveCfg }
    \cup { Options(FALSE, <<>>, FALSE, None, o, <<1, 1>>) : o \in ObjectiveCfg }

\* Valid configurations without an actions block.
ValidOptions ==
    { Options(FALSE, <<>>, FALSE, None, "makespan", <<1, 2>>),
      Options(FALSE, <<>>, FALSE, "minimal", "energy_consumption", <<1, 1>>),
      Options(FALSE, <<>>, FALSE, "small", "edp", <<2, 1>>) }

Job(submit, time, cores, mem, vol) ==
    [ submit_time |-> submit, req_time |-> time, resources |-> cores,
      memory |-> mem, memory_vol |-> vol ]

\* Jobs that may be submitted; every request is within LimitsCfg.
JobPool == { Job(0, 0, 1, 0, 0), Job(1, 3, 2, 1, 4), Job(2, 7, 1, 4, 5),
             Job(3, 8, 4, 2, 1) }

LimitsCfg ==
    { [max_time |-> 8, max_core |-> 4, max_mem |-> 4, max_mem_vol |-> 5],
      [max_time |-> 10, max_core |-> 8, max_mem |-> 6, max_mem_vol |-> 8] }

Times == {0, 40, 60, 100}
Deltas == {a - b : a, b \in Times}

\* get_joules tables: 1 J per 12 s, 2 J per s of |delta|, and no draw.
JoulesCfg == { [d \in Deltas |-> d \div 12],
               [d \in Deltas |-> 2 * Abs(d)],
               [d \in Deltas |-> 0] }

Core(task, static, dynamic) ==
    [ task |-> task, static_power |-> static, dynamic_power |-> dynamic ]

\* Two nodes of one processor each, two cores per processor.
Platform(bw1, bw2, get_joules) ==
    [ procs |-> << [ node |-> 1, gflops_per_core |-> 4, current_mem_bw |-> bw1,
                     children |-> << Core(None, 1, 2), Core(None, 1, 2) >> ],
                   [ node |-> 2, gflops_per_core |-> 6, current_mem_bw |-> bw2,
                     children |-> << Core(None, 2, 3), Core(None, 2, 3) >> ] >>,
      nodes |-> << [current_mem |-> 3], [current_mem |-> 5] >>,
      get_joules |-> get_joules ]

MemBwCfg == {1, 2}

AllCores == << <<1, 1>>, <<1, 2>>, <<2, 1>>, <<2, 2>> >>

----------------------------------------------------------------------------
(* State machine.                                                          *)

NoCall == [op |-> "none"]
NoReturn == [kind |-> "none"]

\* The state before __init__ runs: line 109 has set last_job_queue_length
\* to None and no other attribute exists yet.
InitEnv ==
    /\ status = "new"
    /\ actions = <<>>
    /\ with_void = FALSE
    /\ action_space = 0
    /\ observation_space = 0
    /\ reward = None
    /\ queue_sensitivity = None
    /\ last_job_queue_length = NoneLength
    /\ call = NoCall
    /\ ret = NoReturn

\* Faulty variant of InitLastJobQueueLength: line 170 left out, so the value
\* written by the observation of line 156 stays.
InitLastJobQueueLengthKept(probed) == probed

\* Line 170: the last statement of __init__; `probed` is the value the
\* observation built at line 156 left behind.
InitLastJobQueueLength(probed) == 0

\* Environment.__init__, lines 105-170.
Construct ==
    /\ status = "new"
    /\ LET built == BuildActions(env_options)
           void == BuildWithVoid(env_options)
           probe == BaseObservation(ObservationType(env_options), NoneLength,
                                    None, pending_jobs, job_limits)
       IN  IF built.error # None
              \/ env_options.objective \notin objective_to_reward
           THEN /\ status' = "failed"
                /\ ret' = [kind |-> "error", value |-> KeyError]
                /\ UNCHANGED <<actions, with_void, action_space,
                               observation_space, reward, queue_sensitivity,
                               last_job_queue_length>>
           ELSE /\ status' = "ready"
                /\ actions' = built.actions
                /\ with_void' = void
                /\ action_space' = NbActions(built.actions, void)
                /\ observation_space' = Len(probe.observation)
                /\ reward' = env_options.objective
                /\ queue_sensitivity' = env_options.queue_sensitivity
                /\ last_job_queue_length' =
                       InitLastJobQueueLength(probe.last_job_queue_length)
                /\ ret' = NoReturn
    /\ call' = [op |-> "__init__"]
    /\ UNCHANGED <<env_options, extVars>>

\* self.observation(): _base_observation with the configured otype.
BuildObservation ==
    /\ status = "ready"
    /\ LET r == BaseObservation(ObservationType(env_options),
                                last_job_queue_length, queue_sensitivity,
                                pending_jobs, job_limits)
       IN  /\ ret' = [kind |-> "observation", value |-> r.observation]
           /\ last_job_queue_length' = r.last_job_queue_length
    /\ call' = [op |-> "build_observation", cur |-> Len(pending_jobs),
                prev |-> last_job_queue_length]
    /\ UNCHANGED <<env_options, status, actions, with_void, action_space,
                   observation_space, reward, queue_sensitivity, extVars>>

\* One of makespan_reward(), energy_consumption_reward(), edp_reward().
RewardCall(objective) ==
    /\ status = "ready"
    /\ ret' = [kind |-> "reward",
               value |-> RewardFunction(objective, simulation_time, last_time,
                                        platform.get_joules)]
    /\ call' = [op |-> "reward", objective |-> objective]
    /\ UNCHANGED <<env_options, envVars, extVars>>

\* self.reward(): the function bound at line 168.
ComputeReward == RewardCall(reward)

\* Any of the three reward methods, called directly.
AnyReward == \E objective \in objective_to_reward : RewardCall(objective)

\* decode_action(index) for an index around the valid range.
Decode ==
    /\ status = "ready"
    /\ \E index \in -1..(action_space + 1) :
          /\ ret' = DecodeAction(index, actions, action_space)
          /\ call' = [op |-> "decode_action", index |-> index]
    /\ UNCHANGED <<env_options, envVars, extVars>>

\* A core selection by the scoring function registered under `key`, among
\* a non-empty list of idle cores in platform order.
SelectCore ==
    /\ status = "ready"
    /\ \E key \in {core_selections[i][1] : i \in 1..Len(core_selections)},
          picked \in (SUBSET (1..Len(AllCores))) \ {{}} :
          LET idx == SortSeq(
                  [i \in 1..Cardinality(picked) |->
                      CHOOSE x \in picked :
                          Cardinality({y \in picked : y < x}) = i - 1],
                  LAMBDA a, b : a < b)
              candidates == [i \in 1..Len(idx) |-> AllCores[idx[i]]]
          IN  /\ \A i \in 1..Len(candidates) :
                    platform.procs[candidates[i][1]]
                        .children[candidates[i][2]].task = None
              /\ \E core \in SelectMin(Lookup(core_selections, key),
                                       candidates, platform) :
                    ret' = [kind |-> "core", value |-> core]
              /\ call' = [op |-> "select_core", key |-> key,
                          candidates |-> candidates]
    /\ UNCHANGED <<env_options, envVars, extVars>>

(* Steps of the external collaborators. *)

External ==
    /\ call' = [op |-> "external"]
    /\ ret' = NoReturn
    /\ UNCHANGED <<env_options, envVars>>

\* A job arrives in the pending queue.
Submit ==
    /\ Len(pending_jobs) < MaxQueue
    /\ \E job \in JobPool : pending_jobs' = Append(pending_jobs, job)
    /\ External
    /\ UNCHANGED <<job_limits, simulation_time, last_time, platform>>

\* A pending job is scheduled and leaves the queue.
Schedule ==
    /\ \E i \in 1..Len(pending_jobs) :
          pending_jobs' = SubSeq(pending_jobs, 1, i - 1)
                          \o SubSeq(pending_jobs, i + 1, Len(pending_jobs))
    /\ External
    /\ UNCHANGED <<job_limits, simulation_time, last_time, platform>>

\* The simulator advances its clock.
AdvanceTime ==
    /\ \E t \in Times : t > simulation_time /\ simulation_time' = t
    /\ External
    /\ UNCHANGED <<pending_jobs, job_limits, last_time, platform>>

\* The scheduler records the time of its decision.
Decide ==
    /\ last_time # simulation_time
    /\ last_time' = simulation_time
    /\ External
    /\ UNCHANGED <<pending_jobs, job_limits, simulation_time, platform>>

SetTask(core, task) ==
    platform' = [platform EXCEPT
                    !.procs[core[1]].children[core[2]].task = task]

\* A task starts on an idle core, or the task of a busy core ends.
StartTask ==
    /\ \E k \in 1..Len(AllCores) :
          /\ platform.procs[AllCores[k][1]].children[AllCores[k][2]].task = None
          /\ SetTask(AllCores[k], "task")
    /\ External
    /\ UNCHANGED <<pending_jobs, job_limits, simulation_time, last_time>>

FinishTask ==
    /\ \E k \in 1..Len(AllCores) :
          /\ platform.procs[AllCores[k][1]].children[AllCores[k][2]].task # None
          /\ SetTask(AllCores[k], None)
    /\ External
    /\ UNCHANGED <<pending_jobs, job_limits, simulation_time, last_time>>

\* The memory bandwidth left in a processor changes.
SetMemBw ==
    /\ \E p \in 1..Len(platform.procs), bw \in MemBwCfg :
          /\ platform.procs[p].current_mem_bw # bw
          /\ platform' = [platform EXCEPT !.procs[p].current_mem_bw = bw]
    /\ External
    /\ UNCHANGED <<pending_jobs, job_limits, simulation_time, last_time>>

----------------------------------------------------------------------------
(* Specifications.                                                         *)

DefaultPlatform == Platform(1, 2, [d \in Deltas |-> d \div 12])
DefaultLimits == [max_time |-> 8, max_core |-> 4, max_mem |-> 4, max_mem_vol |-> 5]

\* The observation loop: construction over any queue, then observation
\* builds and reward queries interleaved with queue changes.
Init ==
    /\ env_options \in ValidOptions
    /\ pending_jobs \in SeqsUpTo(JobPool, MaxQueue)
    /\ job_limits \in LimitsCfg
    /\ simulation_time = 100
    /\ last_time = 40
    /\ platform = DefaultPlatform
    /\ InitEnv

Next ==
    \/ Construct
    \/ BuildObservation
    \/ ComputeReward
    \/ Submit
    \/ Schedule

Spec == Init /\ [][Next]_vars

\* The action table: construction from any configuration, then decoding.
InitActions ==
    /\ env_options \in ActionOptions
    /\ pending_jobs = <<>>
    /\ job_limits = DefaultLimits
    /\ simulation_time = 0
    /\ last_time = 0
    /\ platform = DefaultPlatform
    /\ InitEnv

NextActions ==
    \/ Construct
    \/ Decode

SpecActions == InitActions /\ [][NextActions]_vars

\* The rewards: the three reward methods against a moving clock.
InitReward ==
    /\ env_options \in ValidOptions
    /\ pending_jobs = <<>>
    /\ job_limits = DefaultLimits
    /\ simulation_time \in Times
    /\ last_time \in Times
    /\ platform \in {Platform(1, 2, g) : g \in JoulesCfg}
    /\ InitEnv

NextReward ==
    \/ Construct
    \/ AnyReward
    \/ AdvanceTime
    \/ Decide

SpecReward == InitReward /\ [][NextReward]_vars

\* The core selectors: selections among idle cores of a changing platform.
InitSelector ==
    /\ env_options \in ValidOptions
    /\ pending_jobs = <<>>
    /\ job_limits = DefaultLimits
    /\ simulation_time = 0
    /\ last_time = 0
    /\ platform \in {Platform(b1, b2, [d \in Deltas |-> 0]) :
                        b1 \in MemBwCfg, b2 \in MemBwCfg}
    /\ InitEnv

NextSelector ==
    \/ Construct
    \/ SelectCore
    \/ StartTask
    \/ FinishTask
    \/ SetMemBw

SpecSelector == InitSelector /\ [][NextSelector]_vars

----------------------------------------------------------------------------
(* Claims about the action table (SpecActions).                            *)

\* Whether the void action is enabled by the configuration.
VoidEnabled == IF env_options.has_actions THEN env_options.void ELSE TRUE

\* The items <<job_sel, core_sels>> of every selection entry, in order.
RECURSIVE ConfiguredItems(_)
ConfiguredItems(selection) ==
    IF selection = <<>> THEN <<>>
    ELSE Head(selection) \o ConfiguredItems(Tail(selection))

\* The number of core keys configured before item e.
RECURSIVE Offset(_, _)
Offset(items, e) ==
    IF e = 1 THEN 0 ELSE Offset(items, e - 1) + Len(items[e - 1][2])

\* C1: the action count is len(actions) + (1 if void is enabled else 0);
\* every index in [0, action_count) decodes without error, index
\* len(actions) decodes to Void exactly when void is enabled, and every
\* index >= action_count is rejected as out of range.
C1_ActionCount ==
    status = "ready" =>
        LET L == Len(actions)
            n == L + (IF VoidEnabled THEN 1 ELSE 0)
        IN  /\ action_space = n
            /\ call.op = "decode_action" =>
                  /\ call.index \in 0..(n - 1) => ret.kind # "error"
                  /\ call.index = L => (ret.kind = "void" <=> VoidEnabled)
                  /\ call.index >= n =>
                        ret.kind = "error" /\ ret.value = OutOfRange

C1_Witness ==
    /\ status = "ready"
    /\ env_options.has_actions
    /\ ~env_options.void
    /\ Len(actions) = 3
    /\ call.op = "decode_action"
    /\ call.index = 3
    /\ ret.kind = "error"

\* C2: index k < L decodes to the k-th configured (job selector, core
\* selector) pair: list entries in order, each job key's core keys in order.
\* Without an actions block the table is the 6x6 cross-product in registry
\* order: index k is (job selector k div 6, core selector k mod 6) for k in
\* 0..35, index 36 is the void action and there are 37 actions.
C2_ConstructionOrder ==
    status = "ready" =>
        IF env_options.has_actions
        THEN LET items == ConfiguredItems(env_options.selection)
             IN  /\ Len(actions) = Offset(items, Len(items) + 1)
                 /\ \A e \in 1..Len(items) : \A j \in 1..Len(items[e][2]) :
                       LET k == Offset(items, e) + j - 1
                           pair == << Lookup(job_selections, items[e][1]),
                                      Lookup(core_selections, items[e][2][j]) >>
                       IN  /\ actions[k + 1] = pair
                           /\ call.op = "decode_action" /\ call.index = k =>
                                 ret.kind = "action" /\ ret.value = pair
        ELSE /\ Len(actions) = 36
             /\ action_space = 37
             /\ \A k \in 0..35 :
                   LET pair == << job_selections[(k \div 6) + 1][2],
                                  core_selections[(k % 6) + 1][2] >>
                   IN  /\ actions[k + 1] = pair
                       /\ call.op = "decode_action" /\ call.index = k =>
                             ret.kind = "action" /\ ret.value = pair
             /\ call.op = "decode_action" /\ call.index = 36 =>
                   ret.kind = "void"

C2_Witness ==
    /\ status = "ready"
    /\ env_options.has_actions
    /\ Len(env_options.selection) = 2
    /\ Len(env_options.selection[1]) = 2
    /\ env_options.selection[2][1][1] = "low_mem_ops"
    /\ Len(env_options.selection[2][1][2]) = 2
    /\ call.op = "decode_action"
    /\ call.index = 4
    /\ ret.kind = "action"
    /\ ret.value = <<"memory_vol", None>>

\* Every selector key the configuration names, and whether all are known.
NamedKeysKnown ==
    LET items == ConfiguredItems(env_options.selection)
    IN  \A e \in 1..Len(items) :
           /\ HasKey(job_selections, items[e][1])
           /\ \A j \in 1..Len(items[e][2]) :
                 HasKey(core_selections, items[e][2][j])

\* C8: construction fails whenever the objective is not one of makespan,
\* energy_consumption, edp, or a job or core selector key named in
\* actions.selection is in no registry: no such configuration ever yields a
\* ready environment.
C8_BadConfigurationRejected ==
    status = "ready" =>
        /\ env_options.objective \in {"makespan", "energy_consumption", "edp"}
        /\ env_options.has_actions => NamedKeysKnown

----------------------------------------------------------------------------
(* Claims about observations (Spec).                                       *)

InUnitInterval(x) == x[2] > 0 /\ 0 <= x[1] /\ x[1] <= x[2]

\* C3: every observation built has the length fixed at construction,
\* 21 = 4 dimensions x 5 statistics + 1 variation ratio, and every entry
\* lies in [0,1], for every queue size from 0 to MaxQueue.
C3_ObservationBounded ==
    status = "ready" =>
        /\ observation_space = 21
        /\ ret.kind = "observation" =>
              /\ Len(ret.value) = observation_space
              /\ \A i \in 1..Len(ret.value) : InUnitInterval(ret.value[i])

C3_Witness ==
    /\ ret.kind = "observation"
    /\ call.cur = MaxQueue
    /\ \E i \in 1..20 : ret.value[i][2] = 16
    /\ 0 < ret.value[21][1]
    /\ ret.value[21][1] < ret.value[21][2]

\* C4: with cur and prev both positive the last entry is
\* clamp(((cur - prev) / min(cur, prev) + S) / (2S), 0, 1): exactly 1 when
\* the raw ratio is >= S, exactly 0 when it is <= -S, and 1/2 when
\* cur = prev.
C4_VariationRatio ==
    call.op = "build_observation" /\ call.cur > 0 /\ call.prev > 0 =>
        LET m == IF call.cur < call.prev THEN call.cur ELSE call.prev
            d == call.cur - call.prev
            sn == queue_sensitivity[1]
            sd == queue_sensitivity[2]
            e == ret.value[21]
        IN  /\ d * sd >= sn * m => e = <<1, 1>>
            /\ d * sd <= -(sn * m) => e = <<0, 1>>
            /\ d = 0 => e = <<1, 2>>
            /\ -(sn * m) < d * sd /\ d * sd < sn * m =>
                   e[1] * (2 * sn * m) = e[2] * (d * sd + sn * m)

C4_Witness ==
    /\ call.op = "build_observation"
    /\ queue_sensitivity = <<1, 2>>
    /\ call.prev = 2
    /\ call.cur = 3
    /\ ret.value[21] = <<1, 1>>

\* C5: the recorded queue length is 0 when construction completes, whatever
\* the number of pending jobs; afterwards it changes only in
\* build_observation, and right after every build_observation it equals the
\* pending-job count that call saw.
C5_RecordedQueueLength ==
    [][ /\ call'.op = "__init__" /\ status' = "ready" =>
               last_job_queue_length' = 0
        /\ call'.op = "build_observation" =>
               /\ last_job_queue_length' = Len(pending_jobs)
               /\ pending_jobs' = pending_jobs
        /\ last_job_queue_length' # last_job_queue_length =>
               call'.op \in {"__init__", "build_observation"} ]_vars

C5_Witness ==
    /\ call.op = "__init__"
    /\ status = "ready"
    /\ Len(pending_jobs) = 3
    /\ last_job_queue_length = 0

\* C6: with an empty pending queue the 20 percentile entries are exactly 0;
\* whenever the current or the previously recorded count is 0 the last entry
\* is exactly 1; so is the last entry of the first observation built after
\* construction, for any queue size.
C6_Degenerate ==
    /\ [](call.op = "build_observation" =>
            /\ ret.kind = "observation"
            /\ call.cur = 0 => \A i \in 1..20 : ret.value[i] = <<0, 1>>
            /\ call.cur = 0 \/ call.prev = 0 => ret.value[21] = <<1, 1>>)
    /\ [][ call.op = "__init__" /\ call'.op = "build_observation" =>
               ret'.value[21] = <<1, 1>> ]_vars

C6_Witness ==
    /\ call.op = "build_observation"
    /\ call.cur = 0
    /\ call.prev = 2
    /\ ret.value[21] = <<1, 1>>

----------------------------------------------------------------------------
(* Claims about rewards (SpecReward).                                      *)

\* C7: with delta = simulation_time - last_time and E = get_joules(delta) the
\* makespan reward is delta, the energy reward is -E and the EDP reward is
\* (-E) * delta; when last_time <= simulation_time and E >= 0 the first is
\* non-negative and the other two non-positive (100, 40 and get_joules(60) = 5
\* give 60, -5 and -300); a reward call changes no state of the environment.
C7_Rewards ==
    /\ [](call.op = "reward" =>
            LET delta == simulation_time - last_time
                E == platform.get_joules[delta]
                r == ret.value
            IN  /\ call.objective = "makespan" => r = delta
                /\ call.objective = "energy_consumption" => r = 0 - E
                /\ call.objective = "edp" => r = (0 - E) * delta
                /\ last_time <= simulation_time /\ E >= 0 =>
                      IF call.objective = "makespan" THEN r >= 0 ELSE r <= 0
                /\ simulation_time = 100 /\ last_time = 40 /\ E = 5 =>
                      CASE call.objective = "makespan" -> r = 60
                        [] call.objective = "energy_consumption" -> r = -5
                        [] call.objective = "edp" -> r = -300)
    /\ [][ call'.op = "reward" =>
               UNCHANGED <<env_options, envVars, extVars>> ]_vars

C7_Witness ==
    /\ call.op = "reward"
    /\ call.objective = "edp"
    /\ simulation_time = 100
    /\ last_time = 40
    /\ platform.get_joules[60] = 5
    /\ ret.value = -300

----------------------------------------------------------------------------
(* Claims about core selectors (SpecSelector).                             *)

Available(p) ==
    Cardinality({i \in 1..Len(platform.procs[p].children) :
                    platform.procs[p].children[i].task = None})

\* C9: under select-minimum-score, high_cores picks a core whose processor
\* has the greatest number of available (task-free) cores among the
\* candidates' processors, the first such candidate on ties.
C9_HighCores ==
    call.op = "select_core" /\ call.key = "high_cores" =>
        \E k \in 1..Len(call.candidates) :
           /\ ret.value = call.candidates[k]
           /\ \A m \in 1..Len(call.candidates) :
                 Available(call.candidates[m][1]) <= Available(ret.value[1])
           /\ \A m \in 1..(k - 1) :
                 Available(call.candidates[m][1]) < Available(ret.value[1])

\* C10: under select-minimum-score, high_mem_bw picks a core whose processor
\* has the greatest current memory bandwidth among the candidates.
C10_HighMemBw ==
    call.op = "select_core" /\ call.key = "high_mem_bw" =>
        \A m \in 1..Len(call.candidates) :
           platform.procs[call.candidates[m][1]].current_mem_bw
               <= platform.procs[ret.value[1]].current_mem_bw

====
